---- MODULE Spec2Model ----
(***************************************************************************)
(* The fetch-and-derive pipeline of the stock-market-analysis repository:  *)
(* the Airflow DAG (dags/stock_data_pipeline.py) runs the fetch script     *)
(* (scripts/fetch_stock_data.py) and then the analytics script             *)
(* (scripts/calculate_metrics.py) against three PostgreSQL tables.         *)
(*                                                                         *)
(* Numbers the scripts compute by division are modelled as exact rationals *)
(* <<numerator, denominator>> in lowest terms with a positive denominator. *)
(* Of a bar's payload only close_price is modelled: open, high, low and    *)
(* volume travel in the same INSERT and are never read by the pipeline.    *)
(* The database is assumed reachable (psycopg2.connect does not raise).    *)
(***************************************************************************)
EXTENDS Integers, Sequences, FiniteSets

\* ------------------------------------------------------------- bounds
\* How many of the configured tickers the model tracks.
NumTickers == 2
\* Trading dates are 1..MaxDate, ordered as the DATE column orders them.
MaxDate == 3
\* Longest "Time Series (Daily)" object an API response carries.
MaxSeries == 2
\* How many scheduled DAG runs are explored.
MaxCycles == 3

\* ------------------------------------------------------ configuration
ALL_TICKERS ==
    <<"NVDA", "GOOG", "AAPL", "MSFT", "AMZN", "META", "TSM", "NFLX", "TSLA", "AVGO">>

TICKERS == SubSeq(ALL_TICKERS, 1, NumTickers)

TickerSet == {TICKERS[k] : k \in 1..Len(TICKERS)}

Dates == 1..MaxDate

\* Close prices an API response may carry (float(latest_data['4. close'])).
Closes == {0, 100, 110}

\* Python's None where a ticker is expected.
None == "None"

\* ------------------------------------------------- rational arithmetic
Abs(x) == IF x < 0 THEN -x ELSE x

RECURSIVE Gcd(_, _)
Gcd(a, b) == IF b = 0 THEN a ELSE Gcd(b, a % b)

\* n/d in lowest terms, d # 0.
Rat(n, d) ==
    LET g == Gcd(Abs(n), Abs(d))
        s == IF d < 0 THEN -1 ELSE 1
    IN  <<(s * n) \div g, (s * d) \div g>>

Int2Rat(n) == <<n, 1>>
RAdd(x, y) == Rat(x[1] * y[2] + y[1] * x[2], x[2] * y[2])
RSub(x, y) == Rat(x[1] * y[2] - y[1] * x[2], x[2] * y[2])
RMul(x, y) == Rat(x[1] * y[1], x[2] * y[2])
\* Defined for y # 0 only; the callers test for the ZeroDivisionError first.
RDiv(x, y) == Rat(x[1] * y[2], x[2] * y[1])
RLess(x, y) == x[1] * y[2] < y[1] * x[2]

\* ------------------------------------------------------------- state
VARIABLES
    stock_prices,           \* table stock_prices: rows [ticker, date, close]
    daily_returns,          \* table daily_returns: rows [ticker, date, daily, cumulative]
    portfolio_performance,  \* table portfolio_performance: rows [date, total_value, ...]
    pc,                     \* where the DAG run is
    cycles,                 \* DAG runs triggered so far
    api_key,                \* whether ALPHA_VANTAGE_API_KEY is set for this run
    idx,                    \* position of the running script's loop over TICKERS
    stock_data,             \* fetch main's stock_data: the bar just fetched, or NoBar
    success_count,          \* fetch main's counter
    fail_count,             \* fetch main's counter
    invalid_reported,       \* tickers for which "Error: Invalid ticker" was printed
    txn,                    \* daily_returns rows upserted but not yet committed
    failed_ticker,          \* ticker at which calculate_daily_returns raised, or None
    returns,                \* result set calculate_portfolio_performance iterated
    fetch_result,           \* where fetch main returned
    calc_result,            \* where calculate main returned
    fetch_task,             \* Airflow state of task fetch_stock_data
    calc_task,              \* Airflow state of task calculate_analytics
    fetch_try,              \* Airflow try number of task fetch_stock_data
    calc_try,               \* Airflow try number of task calculate_analytics
    written,                \* daily_returns rows the returns pass of this run committed
    response                \* the API answer given to the Quote Source Client on its own

vars == <<stock_prices, daily_returns, portfolio_performance, pc, cycles, api_key,
          idx, stock_data, success_count, fail_count, invalid_reported, txn, failed_ticker,
          returns, fetch_result, calc_result, fetch_task, calc_task, fetch_try,
          calc_try, written, response>>

\* ------------------------------------------------- Quote Source Client
\* One entry of "Time Series (Daily)": a date key and its close.
Entries == [date : Dates, close : Closes]

\* The time series an API answer may hold: date keys are distinct, their
\* order in the JSON object is whatever the API sent.
SeriesOfLen(n) ==
    {s \in [1..n -> Entries] : \A a, b \in 1..n : a # b => s[a].date # s[b].date}

TimeSeries == UNION {SeriesOfLen(n) : n \in 0..MaxSeries}

\* What requests.get(...).json() can give: an "Error Message" document, a
\* "Note" document, a document with a time series (possibly empty or absent),
\* or an exception raised by the request or by parsing.
Responses ==
    {[kind |-> k, series |-> <<>>] : k \in {"error_message", "note", "exception"}}
    \cup {[kind |-> "time_series", series |-> s] : s \in TimeSeries}

\* No answer at hand.
NoResponse == [kind |-> "none", series |-> <<>>]

\* The value fetch_stock_data returns for None.
NoBar == [ticker |-> None, date |-> 0, close |-> 0]

\* latest_date = list(time_series.keys())[0]
LatestEntry(series) == series[1]

\* fetch_stock_data(ticker) on the answer resp: the bar, or NoBar.
fetch_stock_data(ticker, resp) ==
    IF resp.kind = "exception" THEN NoBar
    ELSE IF resp.kind = "error_message" THEN NoBar
    ELSE IF resp.kind = "note" THEN NoBar
    ELSE IF resp.series = <<>> THEN NoBar
    ELSE [ticker |-> ticker,
          date |-> LatestEntry(resp.series).date,
          close |-> LatestEntry(resp.series).close]

\* --------------------------------------------------------- Price Store
\* INSERT ... ON CONFLICT (ticker, date) DO UPDATE, the upsert the Price Store
\* does not use.
InsertBarOverwriting(prices, bar) ==
    {r \in prices : ~(r.ticker = bar.ticker /\ r.date = bar.date)} \cup {bar}

\* INSERT ... ON CONFLICT (ticker, date) DO NOTHING, then commit.
InsertBar(prices, bar) ==
    IF \E r \in prices : r.ticker = bar.ticker /\ r.date = bar.date
    THEN prices
    ELSE prices \cup {bar}

\* save_to_database(stock_data): <<returned value, table afterwards>>.
save_to_database(prices, bar) ==
    IF bar = NoBar THEN <<FALSE, prices>>
    ELSE <<TRUE, InsertBar(prices, bar)>>

\* ------------------------------------------------------- Return Engine
\* The same query with ORDER BY date ASC.
HistoryAscending(prices, ticker) ==
    LET mine == {r \in prices : r.ticker = ticker}
        Nth(k) == CHOOSE r \in mine : Cardinality({q \in mine : q.date < r.date}) = k - 1
    IN  [k \in 1..Cardinality(mine) |-> Nth(k)]

\* SELECT date, close_price FROM stock_prices WHERE ticker = %s ORDER BY date DESC
History(prices, ticker) ==
    LET mine == {r \in prices : r.ticker = ticker}
        Nth(k) == CHOOSE r \in mine : Cardinality({q \in mine : q.date > r.date}) = k - 1
    IN  [k \in 1..Cardinality(mine) |-> Nth(k)]

\* (a - b) / b * 100
PercentChange(a, b) == RMul(RDiv(Int2Rat(a - b), Int2Rat(b)), Int2Rat(100))

\* Lines 47-60 without the "only one day exists" case: the baseline of a single
\* row is the row itself.
ComputeReturnsNoSingleCase(ticker, rows) ==
    LET today == rows[1]
        yesterday_price == rows[IF Len(rows) = 1 THEN 1 ELSE 2].close
        first_price == rows[Len(rows)].close
    IN  IF yesterday_price = 0 \/ first_price = 0
        THEN [raised |-> TRUE,
              row |-> [ticker |-> ticker, date |-> today.date,
                       daily |-> Int2Rat(0), cumulative |-> Int2Rat(0)]]
        ELSE [raised |-> FALSE,
              row |-> [ticker |-> ticker, date |-> today.date,
                       daily |-> PercentChange(today.close, yesterday_price),
                       cumulative |-> PercentChange(today.close, first_price)]]

\* Lines 47-60 on a non-empty rows: the row to upsert, or raised.
ComputeReturns(ticker, rows) ==
    LET today == rows[1] IN
    IF Len(rows) = 1
    THEN [raised |-> FALSE,
          row |-> [ticker |-> ticker, date |-> today.date,
                   daily |-> Int2Rat(0), cumulative |-> Int2Rat(0)]]
    ELSE LET yesterday_price == rows[2].close
             first_price == rows[Len(rows)].close
         IN  IF yesterday_price = 0 \/ first_price = 0
             THEN [raised |-> TRUE,
                   row |-> [ticker |-> ticker, date |-> today.date,
                            daily |-> Int2Rat(0), cumulative |-> Int2Rat(0)]]
             ELSE [raised |-> FALSE,
                   row |-> [ticker |-> ticker, date |-> today.date,
                            daily |-> PercentChange(today.close, yesterday_price),
                            cumulative |-> PercentChange(today.close, first_price)]]

\* An upsert that adds the new values to the stored ones instead of replacing them.
UpsertReturnAccumulating(table, row) ==
    LET old == {r \in table : r.ticker = row.ticker /\ r.date = row.date}
    IN  (table \ old) \cup
        (IF old = {} THEN {row}
         ELSE {[row EXCEPT !.daily = RAdd(r.daily, row.daily),
                           !.cumulative = RAdd(r.cumulative, row.cumulative)] : r \in old})

\* INSERT INTO daily_returns ... ON CONFLICT (ticker, date) DO UPDATE SET ...
UpsertReturn(table, row) ==
    {r \in table : ~(r.ticker = row.ticker /\ r.date = row.date)} \cup {row}

RECURSIVE UpsertAll(_, _)
UpsertAll(table, rows) ==
    IF rows = {} THEN table
    ELSE LET r == CHOOSE x \in rows : TRUE
         IN  UpsertAll(UpsertReturn(table, r), rows \ {r})

\* calculate_daily_returns, lines 33-70: the loop over TICKERS from position k,
\* with the rows upserted so far in the open transaction. An exception at any
\* ticker ends the pass without a commit.
RECURSIVE ReturnsPass(_, _, _)
ReturnsPass(prices, pending, k) ==
    IF k > Len(TICKERS) THEN <<TRUE, pending>>
    ELSE LET ticker == TICKERS[k]
             rows == History(prices, ticker)
         IN  IF rows = <<>> THEN ReturnsPass(prices, pending, k + 1)
             ELSE IF ComputeReturns(ticker, rows).raised THEN <<FALSE, {}>>
             ELSE ReturnsPass(prices, UpsertReturn(pending, ComputeReturns(ticker, rows).row),
                              k + 1)

\* calculate_daily_returns as one call: its result and the daily_returns table
\* it leaves behind.
calculate_daily_returns(prices, table) ==
    LET pass == ReturnsPass(prices, {}, 1)
    IN  IF pass[1] THEN <<TRUE, UpsertAll(table, pass[2])>> ELSE <<FALSE, table>>

\* ------------------------------------------------ Portfolio Aggregator
\* SELECT MAX(date) FROM stock_prices, on a non-empty table.
MaxDateOf(prices) ==
    CHOOSE d \in {r.date : r \in prices} : \A e \in {r.date : r \in prices} : e <= d

\* Each ticker's newest row up to the date, instead of its row of the date.
ReturnsUpTo(table, date) ==
    {[ticker |-> r.ticker, cumulative |-> r.cumulative] :
        r \in {x \in table : x.date <= date /\ \A q \in table :
                    (q.ticker = x.ticker /\ q.date <= date) => q.date <= x.date}}

\* SELECT ticker, cumulative_return_percent FROM daily_returns WHERE date = %s
ReturnsOn(table, date) ==
    {[ticker |-> r.ticker, cumulative |-> r.cumulative] : r \in {x \in table : x.date = date}}

\* The orders in which the database may hand over those rows (no ORDER BY).
ResultSets(rows) ==
    {s \in [1..Cardinality(rows) -> rows] : \A a, b \in 1..Cardinality(rows) :
        a # b => s[a] # s[b]}

\* Lines 116-121: the accumulators before the loop. best_return = -inf and
\* worst_return = +inf are told by best_performer and worst_performer being None.
AggregateStart ==
    [total_value |-> Int2Rat(0),
     best_performer |-> None, worst_performer |-> None,
     best_return |-> Int2Rat(0), worst_return |-> Int2Rat(0)]

\* The iteration with >= and <= for > and <: the last of several equal wins.
AggregateStepLastWins(acc, row) ==
    LET position_value ==
            RMul(Int2Rat(100), RAdd(Int2Rat(1), RDiv(row.cumulative, Int2Rat(100))))
        better == acc.best_performer = None \/ ~RLess(row.cumulative, acc.best_return)
        worse == acc.worst_performer = None \/ ~RLess(acc.worst_return, row.cumulative)
    IN  [total_value |-> RAdd(acc.total_value, position_value),
         best_performer |-> IF better THEN row.ticker ELSE acc.best_performer,
         best_return |-> IF better THEN row.cumulative ELSE acc.best_return,
         worst_performer |-> IF worse THEN row.ticker ELSE acc.worst_performer,
         worst_return |-> IF worse THEN row.cumulative ELSE acc.worst_return]

\* Lines 123-135: one iteration of the loop over the result set.
AggregateStep(acc, row) ==
    LET position_value ==
            RMul(Int2Rat(100), RAdd(Int2Rat(1), RDiv(row.cumulative, Int2Rat(100))))
        better == acc.best_performer = None \/ RLess(acc.best_return, row.cumulative)
        worse == acc.worst_performer = None \/ RLess(row.cumulative, acc.worst_return)
    IN  [total_value |-> RAdd(acc.total_value, position_value),
         best_performer |-> IF better THEN row.ticker ELSE acc.best_performer,
         best_return |-> IF better THEN row.cumulative ELSE acc.best_return,
         worst_performer |-> IF worse THEN row.ticker ELSE acc.worst_performer,
         worst_return |-> IF worse THEN row.cumulative ELSE acc.worst_return]

RECURSIVE AggregateFrom(_, _, _)
AggregateFrom(acc, rows, k) ==
    IF k > Len(rows) THEN acc
    ELSE AggregateFrom(AggregateStep(acc, rows[k]), rows, k + 1)

Aggregate(rows) == AggregateFrom(AggregateStart, rows, 1)

\* Line 115: initial_investment = 100 * len(TICKERS)
InitialInvestment == 100 * Len(TICKERS)

\* Lines 113-151 on the result set rows of latest_date: the row to upsert.
PortfolioRow(latest_date, rows) ==
    LET acc == Aggregate(rows)
        initial_investment == Int2Rat(InitialInvestment)
    IN  [date |-> latest_date,
         total_value |-> acc.total_value,
         best_performer |-> acc.best_performer,
         worst_performer |-> acc.worst_performer,
         daily_return_percent |->
            RMul(RDiv(RSub(acc.total_value, initial_investment), initial_investment),
                 Int2Rat(100))]

\* INSERT INTO portfolio_performance ... ON CONFLICT (date) DO UPDATE SET ...
UpsertPortfolio(table, row) == {r \in table : r.date # row.date} \cup {row}

\* ------------------------------------------------------------ scheduler
\* The exit status of "python fetch_stock_data.py": main() returns normally
\* from line 134 and from line 166 alike, and nothing escapes the try blocks.
FetchExitCode(result) == IF result \in {"no_api_key", "collected"} THEN 0 ELSE 1

\* The exit status of "python calculate_metrics.py": main() returns normally
\* from lines 183, 191 and 195 alike.
CalcExitCode(result) ==
    IF result \in {"returns_failed", "portfolio_failed", "complete"} THEN 0 ELSE 1

\* BashOperator: the task succeeds when the command exits with status 0.
TaskState(code) == IF code = 0 THEN "success" ELSE "failed"

\* default_args: 'retries': 2 (each retry after retry_delay, which is not modelled).
Retries == 2

\* -------------------------------------------------------------- actions
Init ==
    /\ stock_prices = {}
    /\ daily_returns = {}
    /\ portfolio_performance = {}
    /\ pc = "idle"
    /\ cycles = 0
    /\ api_key = TRUE
    /\ idx = 1
    /\ stock_data = NoBar
    /\ success_count = 0
    /\ fail_count = 0
    /\ invalid_reported = {}
    /\ txn = {}
    /\ failed_ticker = None
    /\ returns = <<>>
    /\ fetch_result = "none"
    /\ calc_result = "none"
    /\ fetch_task = "none"
    /\ calc_task = "none"
    /\ fetch_try = 0
    /\ calc_try = 0
    /\ written = {}
    /\ response = NoResponse

\* schedule_interval '0 22 * * *': a new DAG run starts with task fetch_stock_data,
\* a fresh process whose environment may or may not hold the API key.
Trigger ==
    /\ pc \in {"idle", "done"}
    /\ cycles < MaxCycles
    /\ cycles' = cycles + 1
    /\ api_key' \in BOOLEAN
    /\ pc' = "fetch_main"
    /\ idx' = 1
    /\ stock_data' = NoBar
    /\ success_count' = 0
    /\ fail_count' = 0
    /\ invalid_reported' = {}
    /\ txn' = {}
    /\ failed_ticker' = None
    /\ returns' = <<>>
    /\ fetch_result' = "none"
    /\ calc_result' = "none"
    /\ fetch_task' = "running"
    /\ calc_task' = "none"
    /\ fetch_try' = 1
    /\ calc_try' = 0
    /\ written' = {}
    /\ UNCHANGED <<stock_prices, daily_returns, portfolio_performance, response>>

\* fetch main, lines 131-137: the API key check.
FetchMainStart ==
    /\ pc = "fetch_main"
    /\ IF ~api_key
       THEN /\ fetch_result' = "no_api_key"
            /\ pc' = "fetch_exit"
       ELSE /\ fetch_result' = fetch_result
            /\ pc' = "fetch_loop"
    /\ UNCHANGED <<stock_prices, daily_returns, portfolio_performance, cycles, api_key,
                   idx, stock_data, success_count, fail_count, invalid_reported, txn,
                   failed_ticker, returns, calc_result, fetch_task, calc_task,
                   fetch_try, calc_try, written, response>>

\* fetch main, lines 140-159: one iteration of the loop over TICKERS.
FetchTicker ==
    /\ pc = "fetch_loop"
    /\ idx <= Len(TICKERS)
    /\ \E resp \in Responses :
        LET ticker == TICKERS[idx]
            fetched == fetch_stock_data(ticker, resp)
            saved == save_to_database(stock_prices, fetched)
        IN  /\ stock_data' = fetched
            /\ stock_prices' = saved[2]
            /\ success_count' = IF saved[1] THEN success_count + 1 ELSE success_count
            /\ fail_count' = IF saved[1] THEN fail_count ELSE fail_count + 1
            /\ invalid_reported' = IF resp.kind = "error_message"
                                   THEN invalid_reported \cup {ticker}
                                   ELSE invalid_reported
    /\ idx' = idx + 1
    /\ UNCHANGED <<daily_returns, portfolio_performance, pc, cycles, api_key, txn,
                   failed_ticker, returns, fetch_result, calc_result, fetch_task,
                   calc_task, fetch_try, calc_try, written, response>>

\* fetch main, lines 161-166: the summary after the loop.
FetchSummary ==
    /\ pc = "fetch_loop"
    /\ idx > Len(TICKERS)
    /\ fetch_result' = "collected"
    /\ pc' = "fetch_exit"
    /\ UNCHANGED <<stock_prices, daily_returns, portfolio_performance, cycles, api_key,
                   idx, stock_data, success_count, fail_count, invalid_reported, txn,
                   failed_ticker, returns, calc_result, fetch_task, calc_task,
                   fetch_try, calc_try, written, response>>

\* The fetch process exits. fetch_stock_data >> calculate_analytics starts the
\* analytics task when the fetch task succeeded; a failed task is run again
\* while its try number is within 'retries', and fails for good after that.
FetchTaskExit ==
    /\ pc = "fetch_exit"
    /\ IF TaskState(FetchExitCode(fetch_result)) = "success"
       THEN /\ fetch_task' = "success"
            /\ calc_task' = "running"
            /\ calc_try' = 1
            /\ pc' = "returns_loop"
            /\ UNCHANGED <<fetch_try, success_count, fail_count, invalid_reported,
                           fetch_result>>
       ELSE IF fetch_try <= Retries
       THEN /\ fetch_task' = "running"
            /\ fetch_try' = fetch_try + 1
            /\ pc' = "fetch_main"
            /\ success_count' = 0
            /\ fail_count' = 0
            /\ invalid_reported' = {}
            /\ fetch_result' = "none"
            /\ UNCHANGED <<calc_task, calc_try>>
       ELSE /\ fetch_task' = "failed"
            /\ calc_task' = "upstream_failed"
            /\ pc' = "done"
            /\ UNCHANGED <<fetch_try, calc_try, success_count, fail_count,
                           invalid_reported, fetch_result>>
    /\ idx' = 1
    /\ stock_data' = NoBar
    /\ txn' = {}
    /\ UNCHANGED <<stock_prices, daily_returns, portfolio_performance, cycles, api_key,
                   failed_ticker, returns, calc_result, written, response>>

\* main going on to the portfolio step although the returns pass raised.
CalcReturnsTickerUnchecked ==
    /\ pc = "returns_loop"
    /\ idx <= Len(TICKERS)
    /\ LET ticker == TICKERS[idx]
           rows == History(stock_prices, ticker)
       IN  IF rows = <<>>
           THEN /\ idx' = idx + 1
                /\ UNCHANGED <<txn, failed_ticker, calc_result, pc>>
           ELSE IF ComputeReturns(ticker, rows).raised
           THEN /\ failed_ticker' = ticker
                /\ txn' = {}
                /\ pc' = "portfolio"
                /\ idx' = idx
                /\ UNCHANGED calc_result
           ELSE /\ txn' = UpsertReturn(txn, ComputeReturns(ticker, rows).row)
                /\ idx' = idx + 1
                /\ UNCHANGED <<failed_ticker, calc_result, pc>>
    /\ UNCHANGED <<stock_prices, daily_returns, portfolio_performance, cycles, api_key,
                   stock_data, success_count, fail_count, invalid_reported, returns,
                   fetch_result, fetch_task, calc_task, fetch_try, calc_try, written,
                   response>>

\* calculate_daily_returns, lines 33-70: one iteration of the loop over TICKERS.
\* An exception leaves the function through line 77 without a commit.
CalcReturnsTicker ==
    /\ pc = "returns_loop"
    /\ idx <= Len(TICKERS)
    /\ LET ticker == TICKERS[idx]
           rows == History(stock_prices, ticker)
       IN  IF rows = <<>>
           THEN /\ idx' = idx + 1
                /\ UNCHANGED <<txn, failed_ticker, calc_result, pc>>
           ELSE IF ComputeReturns(ticker, rows).raised
           THEN /\ failed_ticker' = ticker
                /\ txn' = {}
                /\ calc_result' = "returns_failed"
                /\ pc' = "calc_exit"
                /\ idx' = idx
           ELSE /\ txn' = UpsertReturn(txn, ComputeReturns(ticker, rows).row)
                /\ idx' = idx + 1
                /\ UNCHANGED <<failed_ticker, calc_result, pc>>
    /\ UNCHANGED <<stock_prices, daily_returns, portfolio_performance, cycles, api_key,
                   stock_data, success_count, fail_count, invalid_reported, returns,
                   fetch_result, fetch_task, calc_task, fetch_try, calc_try, written,
                   response>>

\* calculate_daily_returns, lines 72-75: commit and return True.
CalcReturnsCommit ==
    /\ pc = "returns_loop"
    /\ idx > Len(TICKERS)
    /\ daily_returns' = UpsertAll(daily_returns, txn)
    /\ written' = txn
    /\ txn' = {}
    /\ pc' = "portfolio"
    /\ UNCHANGED <<stock_prices, portfolio_performance, cycles, api_key, idx,
                   stock_data, success_count, fail_count, invalid_reported, failed_ticker,
                   returns, fetch_result, calc_result, fetch_task, calc_task, fetch_try,
                   calc_try, response>>

\* calculate_portfolio_performance, lines 87-166, and main's lines 187-195.
CalcPortfolio ==
    /\ pc = "portfolio"
    /\ IF stock_prices = {}
       THEN /\ calc_result' = "portfolio_failed"
            /\ UNCHANGED <<portfolio_performance, returns>>
       ELSE LET latest_date == MaxDateOf(stock_prices) IN
            \E rows \in ResultSets(ReturnsOn(daily_returns, latest_date)) :
                /\ returns' = rows
                /\ IF rows = <<>>
                   THEN /\ calc_result' = "portfolio_failed"
                        /\ UNCHANGED portfolio_performance
                   ELSE /\ portfolio_performance' =
                              UpsertPortfolio(portfolio_performance,
                                              PortfolioRow(latest_date, rows))
                        /\ calc_result' = "complete"
    /\ pc' = "calc_exit"
    /\ UNCHANGED <<stock_prices, daily_returns, cycles, api_key, idx, stock_data,
                   success_count, fail_count, invalid_reported, txn, failed_ticker, fetch_result,
                   fetch_task, calc_task, fetch_try, calc_try, written, response>>

\* The analytics process exits: the task succeeds and the DAG run ends, or the
\* failed task is run again while its try number is within 'retries', or it
\* fails for good.
CalcTaskExit ==
    /\ pc = "calc_exit"
    /\ IF TaskState(CalcExitCode(calc_result)) = "success"
       THEN /\ calc_task' = "success"
            /\ pc' = "done"
            /\ UNCHANGED <<calc_try, idx, txn, failed_ticker, returns, calc_result,
                           written>>
       ELSE IF calc_try <= Retries
       THEN /\ calc_task' = "running"
            /\ calc_try' = calc_try + 1
            /\ pc' = "returns_loop"
            /\ idx' = 1
            /\ txn' = {}
            /\ failed_ticker' = None
            /\ returns' = <<>>
            /\ calc_result' = "none"
            /\ written' = {}
       ELSE /\ calc_task' = "failed"
            /\ pc' = "done"
            /\ UNCHANGED <<calc_try, idx, txn, failed_ticker, returns, calc_result,
                           written>>
    /\ UNCHANGED <<stock_prices, daily_returns, portfolio_performance, cycles, api_key,
                   stock_data, success_count, fail_count, invalid_reported,
                   fetch_result, fetch_task, fetch_try, response>>

Next ==
    \/ Trigger
    \/ FetchMainStart
    \/ FetchTicker
    \/ FetchSummary
    \/ FetchTaskExit
    \/ CalcReturnsTicker
    \/ CalcReturnsCommit
    \/ CalcPortfolio
    \/ CalcTaskExit

Spec == Init /\ [][Next]_vars

\* ------------------------------------------- the Quote Source Client alone
\* One call of fetch_stock_data for one configured ticker on any answer the API
\* may give, followed by main's save of what the call returned (lines 142-147).
InitClient ==
    /\ stock_prices = {}
    /\ daily_returns = {}
    /\ portfolio_performance = {}
    /\ pc = "client_call"
    /\ cycles = 0
    /\ api_key = TRUE
    /\ idx \in 1..Len(TICKERS)
    /\ stock_data = NoBar
    /\ success_count = 0
    /\ fail_count = 0
    /\ invalid_reported = {}
    /\ txn = {}
    /\ failed_ticker = None
    /\ returns = <<>>
    /\ fetch_result = "none"
    /\ calc_result = "none"
    /\ fetch_task = "none"
    /\ calc_task = "none"
    /\ fetch_try = 0
    /\ calc_try = 0
    /\ written = {}
    /\ response \in Responses

\* stock_data = fetch_stock_data(ticker)
ClientFetch ==
    /\ pc = "client_call"
    /\ stock_data' = fetch_stock_data(TICKERS[idx], response)
    /\ pc' = "client_save"
    /\ UNCHANGED <<stock_prices, daily_returns, portfolio_performance, cycles, api_key,
                   idx, success_count, fail_count, invalid_reported, txn, failed_ticker,
                   returns, fetch_result, calc_result, fetch_task, calc_task, fetch_try,
                   calc_try, written, response>>

\* if stock_data: save_to_database(stock_data) ... else: fail_count += 1
ClientSave ==
    /\ pc = "client_save"
    /\ LET saved == save_to_database(stock_prices, stock_data)
       IN  /\ stock_prices' = saved[2]
           /\ success_count' = IF saved[1] THEN success_count + 1 ELSE success_count
           /\ fail_count' = IF saved[1] THEN fail_count ELSE fail_count + 1
    /\ pc' = "client_done"
    /\ UNCHANGED <<daily_returns, portfolio_performance, cycles, api_key, idx, stock_data,
                   invalid_reported, txn, failed_ticker, returns, fetch_result,
                   calc_result, fetch_task, calc_task, fetch_try, calc_try, written,
                   response>>

NextClient ==
    \/ ClientFetch
    \/ ClientSave

SpecClient == InitClient /\ [][NextClient]_vars

\* ------------------------------------------------ visualization consumer
\* SQL NULL in a column of rationals.
NullValue == <<>>

\* get_latest_stock_prices(): the bars of MAX(date), LEFT JOINed with the
\* ReturnRecord of the same ticker and date. Every configured ticker is taken
\* to have its stock_info row, so the inner JOIN drops nothing.
get_latest_stock_prices(prices, table) ==
    {[ticker |-> sp.ticker,
      date |-> sp.date,
      close_price |-> sp.close,
      daily_return_percent |->
          IF \E dr \in table : dr.ticker = sp.ticker /\ dr.date = sp.date
          THEN (CHOOSE dr \in table : dr.ticker = sp.ticker /\ dr.date = sp.date).daily
          ELSE NullValue,
      cumulative_return_percent |->
          IF \E dr \in table : dr.ticker = sp.ticker /\ dr.date = sp.date
          THEN (CHOOSE dr \in table : dr.ticker = sp.ticker /\ dr.date = sp.date).cumulative
          ELSE NullValue] :
        sp \in {x \in prices : \A y \in prices : y.date <= x.date}}

\* get_portfolio_performance(): SELECT ... FROM portfolio_performance.
get_portfolio_performance(table) == table

\* ------------------------------------------------------- the claims
\* The bars stored for a ticker, its dates, and the bar of a stored date.
BarsOf(ticker) == {r \in stock_prices : r.ticker = ticker}
DatesOf(ticker) == {r.date : r \in BarsOf(ticker)}
CloseOn(ticker, date) == (CHOOSE r \in BarsOf(ticker) : r.date = date).close
NewestDate(ticker) == CHOOSE d \in DatesOf(ticker) : \A e \in DatesOf(ticker) : e <= d
EarliestDate(ticker) == CHOOSE d \in DatesOf(ticker) : \A e \in DatesOf(ticker) : d <= e
NextOlderDate(ticker) ==
    CHOOSE d \in DatesOf(ticker) \ {NewestDate(ticker)} :
        \A e \in DatesOf(ticker) \ {NewestDate(ticker)} : e <= d

\* (a - b) / b * 100 as one fraction.
Percent(a, b) == Rat((a - b) * 100, b)

\* The returns pass of the running cycle has committed; stock_prices has not
\* changed since.
ReturnsCommitted ==
    /\ pc \in {"portfolio", "calc_exit", "done"}
    /\ calc_task # "none"
    /\ calc_result # "returns_failed"

\* calculate_portfolio_performance has stored its row in the running cycle.
PortfolioStored == pc \in {"calc_exit", "done"} /\ calc_result = "complete"

KeyUnique(prices) ==
    \A r, q \in prices : (r.ticker = q.ticker /\ r.date = q.date) => r = q

\* C1: a stored (ticker, date) bar is never changed or lost, whatever bar a
\* later save_to_database brings for the same key: every step of the pipeline
\* keeps every row of stock_prices, and the key stays unique.
Thm_C1 == [][stock_prices \subseteq stock_prices' /\ KeyUnique(stock_prices')]_vars

\* A save for a key that is already stored, with a different close, has just run.
Witness_C1 ==
    /\ pc = "fetch_loop"
    /\ stock_data # NoBar
    /\ \E r \in stock_prices :
        /\ r.ticker = stock_data.ticker
        /\ r.date = stock_data.date
        /\ r.close # stock_data.close

\* The table of the example: closes 100, 110, 121 on three dates.
ExampleBars ==
    {[ticker |-> "NVDA", date |-> 1, close |-> 100],
     [ticker |-> "NVDA", date |-> 2, close |-> 110],
     [ticker |-> "NVDA", date |-> 3, close |-> 121]}

\* C2: once the returns pass has committed, every ticker with two or more bars
\* has, for its newest date, the row whose daily return is taken against the
\* bar of the next-older stored date and whose cumulative return is taken
\* against the bar of the earliest stored date; closes 100, 110, 121 give
\* daily 10 and cumulative 21.
Thm_C2 ==
    /\ ReturnsCommitted =>
        \A t \in TickerSet : Cardinality(BarsOf(t)) >= 2 =>
            LET today == CloseOn(t, NewestDate(t))
                prev == CloseOn(t, NextOlderDate(t))
                first == CloseOn(t, EarliestDate(t))
            IN  /\ prev # 0
                /\ first # 0
                /\ [ticker |-> t, date |-> NewestDate(t),
                    daily |-> Percent(today, prev),
                    cumulative |-> Percent(today, first)] \in daily_returns
    /\ LET computed == ComputeReturns("NVDA", History(ExampleBars, "NVDA"))
       IN  /\ ~computed.raised
           /\ computed.row.date = 3
           /\ computed.row.daily = <<10, 1>>
           /\ computed.row.cumulative = <<21, 1>>

\* Committed returns of a ticker whose bars leave a calendar gap between the
\* newest date and the next-older stored date, with a daily return that is not 0.
Witness_C2 ==
    /\ ReturnsCommitted
    /\ \E t \in TickerSet :
        /\ Cardinality(BarsOf(t)) >= 2
        /\ NextOlderDate(t) + 1 < NewestDate(t)
        /\ \E r \in daily_returns :
            /\ r.ticker = t
            /\ r.date = NewestDate(t)
            /\ r.daily # <<0, 1>>

\* Where a ticker stands in TICKERS.
Position(ticker) == CHOOSE k \in 1..Len(TICKERS) : TICKERS[k] = ticker

ZeroRow(ticker) ==
    [ticker |-> ticker, date |-> NewestDate(ticker),
     daily |-> <<0, 1>>, cumulative |-> <<0, 1>>]

\* C3: a ticker with exactly one stored bar never makes calculate_daily_returns
\* raise, the row the pass writes for it is (its date, 0, 0) whatever its close,
\* and that row is in daily_returns once the pass has committed.
Thm_C3 ==
    \A t \in TickerSet : Cardinality(BarsOf(t)) = 1 =>
        /\ calc_task # "none" => failed_ticker # t
        /\ (pc = "returns_loop" /\ Position(t) < idx) => ZeroRow(t) \in txn
        /\ ReturnsCommitted => ZeroRow(t) \in daily_returns

\* Committed returns of a ticker whose only bar has close 0.
Witness_C3 ==
    /\ ReturnsCommitted
    /\ \E t \in TickerSet :
        /\ Cardinality(BarsOf(t)) = 1
        /\ CloseOn(t, NewestDate(t)) = 0
        /\ ZeroRow(t) \in daily_returns

\* The snapshot date, on a non-empty stock_prices.
SnapshotDate == CHOOSE d \in {r.date : r \in stock_prices} :
                    \A e \in {r.date : r \in stock_prices} : e <= d

\* The ReturnRecords dated the snapshot date.
Included == {r \in daily_returns : r.date = SnapshotDate}

\* The rows of portfolio_performance for the snapshot date.
Snapshots == {p \in portfolio_performance : p.date = SnapshotDate}

RECURSIVE SumOfValues(_)
SumOfValues(rows) ==
    IF rows = {} THEN <<0, 1>>
    ELSE LET r == CHOOSE x \in rows : TRUE
         IN  RAdd(RAdd(<<100, 1>>, r.cumulative), SumOfValues(rows \ {r}))

\* C4: the stored portfolio return is (total_value - total_allocation) /
\* total_allocation * 100 with total_allocation = 100 * the number of tickers
\* that have a ReturnRecord on the snapshot date.
Claim_C4 ==
    PortfolioStored =>
        \A p \in Snapshots :
            LET total_allocation == <<100 * Cardinality(Included), 1>>
            IN  p.daily_return_percent =
                    RMul(RDiv(RSub(p.total_value, total_allocation), total_allocation),
                         <<100, 1>>)

\* C5: the stored total_value of the snapshot date is the sum of
\* 100 * (1 + cumulative/100) over exactly the tickers that have a ReturnRecord
\* dated that day; there is one row for the date.
Thm_C5 ==
    PortfolioStored =>
        /\ Cardinality(Snapshots) = 1
        /\ \A p \in Snapshots : p.total_value = SumOfValues(Included)

\* A stored snapshot while some ticker's newest ReturnRecord is older than the
\* snapshot date.
Witness_C5 ==
    /\ PortfolioStored
    /\ \E t \in TickerSet :
        /\ \E r \in daily_returns : r.ticker = t
        /\ \A r \in daily_returns : r.ticker = t => r.date < SnapshotDate
    /\ \A p \in Snapshots : p.total_value = SumOfValues(Included)

\* The cumulative returns of the result set that no other exceeds / undercuts.
IsMaxReturn(c) == \A k \in 1..Len(returns) : ~RLess(c, returns[k].cumulative)
IsMinReturn(c) == \A k \in 1..Len(returns) : ~RLess(returns[k].cumulative, c)

\* The ticker of the first row of the result set whose cumulative return is c.
FirstWith(c) ==
    returns[CHOOSE k \in 1..Len(returns) :
                /\ returns[k].cumulative = c
                /\ \A j \in 1..(k - 1) : returns[j].cumulative # c].ticker

\* C6: the stored best and worst performers are the tickers of the first rows,
\* in the order the result set of the snapshot date was iterated, that hold
\* the maximum and the minimum cumulative return.
Thm_C6 ==
    PortfolioStored =>
        /\ {returns[k] : k \in 1..Len(returns)} =
                {[ticker |-> r.ticker, cumulative |-> r.cumulative] : r \in Included}
        /\ \A p \in Snapshots :
            /\ \E k \in 1..Len(returns) :
                /\ IsMaxReturn(returns[k].cumulative)
                /\ p.best_performer = FirstWith(returns[k].cumulative)
            /\ \E k \in 1..Len(returns) :
                /\ IsMinReturn(returns[k].cumulative)
                /\ p.worst_performer = FirstWith(returns[k].cumulative)

\* A stored snapshot over two tickers with equal cumulative returns, handed
\* over in the reverse of their order in TICKERS.
Witness_C6 ==
    /\ PortfolioStored
    /\ Len(returns) >= 2
    /\ returns[1].cumulative = returns[2].cumulative
    /\ Position(returns[2].ticker) < Position(returns[1].ticker)
    /\ \A p \in Snapshots :
        /\ p.best_performer = returns[1].ticker
        /\ p.worst_performer = returns[1].ticker

\* C7: in a cycle in which a ticker was reported as an invalid symbol, every
\* configured ticker was still attempted, and when a ticker's fetch succeeded
\* the cycle ends Complete. Stated for the cycles in which no ticker other
\* than those reported invalid makes the returns pass raise.
Claim_C7 ==
    /\ (invalid_reported # {} /\ pc \notin {"fetch_main", "fetch_loop"}) =>
            success_count + fail_count = Len(TICKERS)
    /\ (/\ pc = "done"
        /\ invalid_reported # {}
        /\ success_count >= 1
        /\ failed_ticker \in invalid_reported \cup {None}) =>
            (calc_task # "none" /\ calc_result = "complete")

\* C8: a Compute stage that ran while stock_prices held no bar ends failed, is
\* reported to the scheduler as failed, and leaves portfolio_performance as it
\* was (empty, since no bar was ever stored).
Claim_C8 ==
    (pc = "done" /\ calc_result # "none" /\ stock_prices = {}) =>
        /\ calc_result \in {"returns_failed", "portfolio_failed"}
        /\ calc_task = "failed"
        /\ portfolio_performance = {}

\* C9: when the returns pass has raised at one ticker, every other configured
\* ticker with stored history whose returns are computable has the row of its
\* newest date in daily_returns when the run ends.
Claim_C9 ==
    (pc \in {"calc_exit", "done"} /\ failed_ticker # None) =>
        \A t \in TickerSet \ {failed_ticker} :
            (BarsOf(t) # {} /\ ~ComputeReturns(t, History(stock_prices, t)).raised) =>
                ComputeReturns(t, History(stock_prices, t)).row \in daily_returns

\* C10: when the API key is missing the fetch stage stops before any ticker is
\* attempted, the fetch task is reported failed, and the analytics task does
\* not run in that cycle.
Claim_C10 ==
    (fetch_result = "no_api_key" /\ pc # "fetch_exit") =>
        /\ success_count + fail_count = 0
        /\ fetch_task = "failed"
        /\ calc_task \in {"none", "upstream_failed"}

\* C11: whenever the consumer reads, the rows it sees as latest belong to a
\* committed, self-consistent cycle: every bar of the maximum date comes with
\* its ReturnRecord of that date, and portfolio_performance has a row for it.
Claim_C11 ==
    \A row \in get_latest_stock_prices(stock_prices, daily_returns) :
        /\ row.daily_return_percent # NullValue
        /\ row.cumulative_return_percent # NullValue
        /\ \E p \in get_portfolio_performance(portfolio_performance) : p.date = row.date

\* The portfolio step acts: it reads the returns of the snapshot date, stores a
\* snapshot, or reports its outcome.
PortfolioActs ==
    \/ portfolio_performance' # portfolio_performance
    \/ returns' # returns /\ returns' # <<>>
    \/ calc_result = "none" /\ calc_result' \in {"portfolio_failed", "complete"}

\* The returns pass of this run went over every configured ticker without an
\* exception and committed what it computed.
ReturnsPassDone ==
    /\ pc = "portfolio"
    /\ idx > Len(TICKERS)
    /\ failed_ticker = None
    /\ calc_result = "none"
    /\ txn = {}
    /\ written \subseteq daily_returns
    /\ \A t \in TickerSet :
          History(stock_prices, t) # <<>> =>
              ComputeReturns(t, History(stock_prices, t)).row \in written

\* C12: within a cycle the portfolio step acts only after the returns pass went
\* over every configured ticker and committed, never in a cycle whose returns
\* pass failed, and every return it reads for the snapshot date is a row the
\* returns pass of the same cycle wrote.
Thm_C12 ==
    [][PortfolioActs =>
          /\ ReturnsPassDone
          /\ \A k \in 1..Len(returns') :
                \E w \in written :
                    /\ w.ticker = returns'[k].ticker
                    /\ w.date = MaxDateOf(stock_prices)
                    /\ w.cumulative = returns'[k].cumulative]_vars

\* A snapshot was stored from the rows of this cycle while the table also holds
\* a row of an earlier cycle that this cycle's pass did not write.
Witness_C12 ==
    /\ PortfolioStored
    /\ pc = "calc_exit"
    /\ Len(returns) >= 1
    /\ \E r \in daily_returns : r \notin written
    /\ \A k \in 1..Len(returns) : \E w \in written : w.ticker = returns[k].ticker

\* The stage outcomes the scripts report as errors: the missing API key, an
\* exception in the returns pass, a portfolio step without data.
CycleFailed ==
    \/ fetch_result = "no_api_key"
    \/ calc_result \in {"returns_failed", "portfolio_failed"}

\* C13: a failed cycle is run again at most Retries times, and a DAG run that
\* ends with a failed cycle has used up its retries and is marked failed; the
\* next trigger starts from the initial process state.
Claim_C13 ==
    /\ fetch_try <= Retries + 1
    /\ calc_try <= Retries + 1
    /\ (pc = "done" /\ CycleFailed) =>
          \/ fetch_task = "failed" /\ fetch_try = Retries + 1
          \/ calc_task = "failed" /\ calc_try = Retries + 1
    /\ pc = "fetch_main" =>
          /\ idx = 1
          /\ success_count + fail_count = 0
          /\ txn = {}
          /\ failed_ticker = None
          /\ fetch_result = "none"
          /\ calc_result = "none"

\* C14: a second call of calculate_daily_returns on unchanged stock_prices
\* leaves daily_returns as the first call left it. At the commit of a pass the
\* table is what one call gives, one more call on it gives the same table, and
\* a run that stored no bar since the previous run's pass changes nothing.
Thm_C14 ==
    [][(pc = "returns_loop" /\ pc' = "portfolio") =>
          /\ calculate_daily_returns(stock_prices, daily_returns) = <<TRUE, daily_returns'>>
          /\ calculate_daily_returns(stock_prices', daily_returns') = <<TRUE, daily_returns'>>
          /\ success_count = 0 => daily_returns' = daily_returns]_vars

\* A later run stored no bar and its pass has committed again rows with
\* non-zero returns over rows of an earlier run.
Witness_C14 ==
    /\ pc = "portfolio"
    /\ cycles >= 2
    /\ success_count = 0
    /\ \E w \in written : w.daily # Int2Rat(0) /\ w.cumulative # Int2Rat(0)
    /\ written \subseteq daily_returns
    /\ daily_returns # written

\* The entry of a non-empty series with the greatest date.
GreatestEntry(series) ==
    series[CHOOSE a \in 1..Len(series) : \A b \in 1..Len(series) : series[b].date <= series[a].date]

\* C15: for a successful answer with a non-empty time series, in whatever
\* order its dates come, the bar fetch_stock_data returns is the entry with
\* the greatest date, and that entry alone is stored.
Claim_C15 ==
    (response.kind = "time_series" /\ response.series # <<>>) =>
        LET bar == [ticker |-> TICKERS[idx],
                    date |-> GreatestEntry(response.series).date,
                    close |-> GreatestEntry(response.series).close]
        IN  /\ pc \in {"client_save", "client_done"} => stock_data = bar
            /\ pc = "client_done" => stock_prices = {bar}

====
